---- MODULE Spec2Model ----
(***************************************************************************)
(* A model of reddit_to_telegram_bot.py: the Reddit read layer (OAuth with *)
(* retries and a proxy fallback), the caption builder, the per-post        *)
(* handler and the driver (main) with its persisted state file.            *)
(*                                                                         *)
(* Five specifications share the module:                                   *)
(*   SpecFetch    - reddit_json applied to every bounded input             *)
(*   SpecCaption  - compose_caption applied to every bounded item, and the *)
(*                  send handle_post makes of its caption                  *)
(*   SpecTruncate - truncate applied to every bounded text and limit       *)
(*   SpecRank     - fetch_top_comments applied to every bounded thread     *)
(*   Spec         - main, run after run, with kills between the steps      *)
(***************************************************************************)
EXTENDS Integers, Sequences, FiniteSets, TLC

VARIABLES
    \* ---- SpecFetch: one logical fetch
    fpc,        \* "idle" | "input" | "done"
    fin,        \* the inputs of the fetch (environment and server answers)
    fout,       \* what reddit_json did with them
    \* ---- SpecCaption: one call of compose_caption
    cpc,        \* "idle" | "input" | "done"
    cin,        \* the post and its ranked comments
    cout,       \* the caption compose_caption returns
    csend,      \* the call of a delivery primitive handle_post makes with it
    \* ---- SpecTruncate: one call of truncate
    tpc,        \* "idle" | "input" | "done"
    tin,        \* text and max_len
    tout,       \* the string truncate returns
    \* ---- SpecRank: one call of fetch_top_comments
    kpc,        \* "idle" | "input" | "done"
    kin,        \* the children of the comment thread Reddit serves, and count
    kout,       \* the rows fetch_top_comments returns
    \* ---- Spec: the driver, run after run
    env,        \* the environment variables read at import (lines 17-31)
    nposts,     \* the listing Reddit serves: posts 1..nposts, in listing order
    sticky,     \* whether the listing's first post is stickied
    disk,       \* STATE_FILE
    run,        \* the number of the current run (process)
    pc,         \* where main is: "idle" "start" "force" "loop" "done" "exit" "crashed" "killed"
    state,      \* main's dict `state` (its keys)
    tok,        \* _OAUTH_TOKEN is set and not expired
    idx,        \* the position of the for-loop in reversed(posts)
    sent_total, \* main's sent_total
    skipped,    \* main's skipped
    net,        \* the kinds of network call issued in this run
    delivered,  \* the ids Telegram accepted in this run, in order
    recorded,   \* the ids written to STATE_FILE by this run
    confirmed,  \* the ids delivered and written to STATE_FILE by earlier runs
    listing,    \* what fetch_listing's call of reddit_json did in this run
    auth,       \* this run: [refused: a grant was refused, served: a read was served after it]
    failed,     \* the sends of this run that were rejected or raised
    faulted,    \* something has gone wrong already: a failed send or fetch, a kill
    last,       \* the last call of handle_post: its arguments and what it did
    prev        \* how the previous run ended

fetchVars == <<fpc, fin, fout>>

capVars == <<cpc, cin, cout, csend>>

truncVars == <<tpc, tin, tout>>

rankVars == <<kpc, kin, kout>>

runVars == <<env, nposts, sticky, disk, run, pc, state, tok, idx, sent_total,
             skipped, net, delivered, recorded, confirmed, listing, auth, failed,
             faulted, last, prev>>

vars == <<fetchVars, capVars, truncVars, rankVars, runVars>>

\* The variables of the other specifications, which a step of the driver
\* (of a fetch, of the caption builder) leaves alone.
notRunVars   == <<fetchVars, capVars, truncVars, rankVars>>
notFetchVars == <<runVars, capVars, truncVars, rankVars>>
notCapVars   == <<fetchVars, runVars, truncVars, rankVars>>
notTruncVars == <<fetchVars, capVars, rankVars, runVars>>
notRankVars  == <<fetchVars, capVars, truncVars, runVars>>

-----------------------------------------------------------------------------
(* The Reddit read layer, lines 98-183                                     *)

\* max_retries: int = 3
MaxRetries == 3

\* A response of the OAuth endpoint to session.get: its status code and
\* whether its body parses as JSON.  Status 0 stands for session.get raising
\* (timeout, connection error) instead of answering.
Resp(status, json) == [status |-> status, json |-> json]

RespOk      == Resp(200, TRUE)
RespTerminal == {RespOk, Resp(200, FALSE), Resp(404, FALSE), Resp(0, FALSE)}
RespContinue == {Resp(401, FALSE), Resp(403, FALSE), Resp(429, FALSE), Resp(500, FALSE)}
RespAll == RespTerminal \cup RespContinue

\* The answers of the token endpoint to the password grant.
GrantOk       == [status |-> 200, access_token |-> TRUE]
GrantNoToken  == [status |-> 200, access_token |-> FALSE]
GrantRejected == [status |-> 401, access_token |-> FALSE]
GrantAll == {GrantOk, GrantNoToken, GrantRejected}

\* The answers of the relay (proxy): status (0: the request raised) and
\* whether the body is JSON.
ProxyAll == {Resp(200, TRUE), Resp(200, FALSE), Resp(503, FALSE), Resp(0, FALSE)}

\* oauth_token with `force` ignored: a cached token is returned as it is.
oauth_token_unforced(force, cached, creds, g) ==
    IF cached
    THEN [res |-> "token", grants |-> 0, has_token |-> TRUE]
    ELSE IF ~creds
    THEN [res |-> "exit", grants |-> 0, has_token |-> cached]
    ELSE IF g.status >= 400 \/ ~g.access_token
    THEN [res |-> "raise", grants |-> 1, has_token |-> cached]
    ELSE [res |-> "token", grants |-> 1, has_token |-> TRUE]

\* oauth_token(force): `cached` is  _OAUTH_TOKEN and now < _TOKEN_EXP - 30,
\* `creds` is whether the four REDDIT_* variables are all set, `g` the
\* answer of the token endpoint should it be asked.
\*   res: "token" (returned), "raise" (an Exception), "exit" (SystemExit)
oauth_token(force, cached, creds, g) ==
    IF ~force /\ cached
    THEN [res |-> "token", grants |-> 0, has_token |-> TRUE]
    ELSE IF ~creds
    THEN [res |-> "exit", grants |-> 0, has_token |-> cached]
    ELSE IF g.status >= 400 \/ ~g.access_token
    THEN [res |-> "raise", grants |-> 1, has_token |-> cached]
    ELSE [res |-> "token", grants |-> 1, has_token |-> TRUE]

\* elif r.status_code in (403, 429) or 500 <= r.status_code < 600
IsBackoffStatusNo429(status) == status = 403 \/ (500 <= status /\ status < 600)

\* Every error status but 401 taken for transient.
IsBackoffStatusAnyError(status) == status >= 400

IsBackoffStatus(status) ==
    status \in {403, 429} \/ (500 <= status /\ status < 600)

\* The for-loop of reddit_json_via_oauth from `attempt` on.  acc counts what
\* has been done so far: requests, grants, forced refreshes, sleeps.
RECURSIVE oauth_loop(_, _, _, _, _)
oauth_loop(attempt, acc, creds, g2, resps) ==
    IF attempt > MaxRetries
    THEN [acc EXCEPT !.res = "raise"]                 \* r.raise_for_status()
    ELSE
      LET r == resps[attempt] IN
      IF r.status = 0
      THEN [acc EXCEPT !.res = "raise"]               \* session.get raised
      ELSE
        LET a == [acc EXCEPT !.requests = @ + 1, !.statuses = Append(@, r.status)] IN
        IF r.status < 400
        THEN [a EXCEPT !.res = IF r.json THEN "ok" ELSE "raise",
                       !.okAttempt = IF r.json THEN attempt ELSE 0]
        ELSE IF r.status = 401
        THEN LET t == oauth_token(TRUE, a.has_token, creds, g2) IN
             LET b == [a EXCEPT !.grants = @ + t.grants,
                                !.forced = @ + 1,
                                !.has_token = t.has_token] IN
             IF t.res = "token"
             THEN oauth_loop(attempt + 1, b, creds, g2, resps)
             ELSE [b EXCEPT !.res = t.res]
        ELSE IF IsBackoffStatus(r.status)
        THEN oauth_loop(attempt + 1, [a EXCEPT !.sleeps = @ + 1], creds, g2, resps)
        ELSE [a EXCEPT !.res = "raise"]               \* break; raise_for_status

\* reddit_json_via_oauth(path, params): g1 answers the grant of line 136,
\* g2 the forced refreshes of line 153, resps[k] the k-th request.
reddit_json_via_oauth(cached, creds, g1, g2, resps) ==
    LET t == oauth_token(FALSE, cached, creds, g1) IN
    LET acc == [res |-> t.res, requests |-> 0, statuses |-> <<>>,
                grants |-> t.grants, forced |-> 0, sleeps |-> 0,
                okAttempt |-> 0, has_token |-> t.has_token] IN
    IF t.res = "token"
    THEN oauth_loop(1, acc, creds, g2, resps)
    ELSE acc

\* reddit_json_via_proxy(path, params): "ok" or "raise".
reddit_json_via_proxy(px) ==
    IF px.status = 0 \/ px.status >= 400 THEN "raise"   \* get / raise_for_status
    ELSE IF ~px.json THEN "raise"                       \* RuntimeError, non-JSON
    ELSE "ok"

\* The record reddit_json leaves: res is "ok" (a payload is returned),
\* "raise" (an Exception leaves the call) or "exit" (SystemExit leaves it);
\* o is what the primary path did, proxyCalls the calls of the relay.
Fetched(res, via, o, primaryRun, proxyCalls) ==
    [res |-> res, via |-> via, primary |-> o, primaryRun |-> primaryRun,
     proxyCalls |-> proxyCalls, has_token |-> o.has_token]

\* The primary path not entered (FORCE_PROXY).
NoPrimary(cached) ==
    [res |-> "none", requests |-> 0, statuses |-> <<>>, grants |-> 0,
     forced |-> 0, sleeps |-> 0, okAttempt |-> 0, has_token |-> cached]

\* return reddit_json_via_proxy(path, params), lines 178 and 183
via_proxy(o, primaryRun, res) ==
    Fetched(res, IF res = "ok" THEN "proxy" ELSE "none", o, primaryRun, 1)

\* Lines 179-183 without the fallback: the primary path's failure is the
\* fetch's failure.
oauth_no_fallback(o, px) ==
    Fetched(o.res, IF o.res = "ok" THEN "oauth" ELSE "none", o, TRUE, 0)

\* Lines 179-183: try reddit_json_via_oauth, except Exception the relay.
\* SystemExit is no Exception: line 181 does not catch it.
oauth_or_proxy(o, px) ==
    IF o.res = "ok" THEN Fetched("ok", "oauth", o, TRUE, 0)
    ELSE IF o.res = "exit" THEN Fetched("exit", "none", o, TRUE, 0)
    ELSE via_proxy(o, TRUE, reddit_json_via_proxy(px))

\* reddit_json(path, params)
reddit_json(force_proxy, cached, creds, g1, g2, resps, px) ==
    IF force_proxy
    THEN via_proxy(NoPrimary(cached), FALSE, reddit_json_via_proxy(px))
    ELSE oauth_or_proxy(reddit_json_via_oauth(cached, creds, g1, g2, resps), px)

-----------------------------------------------------------------------------
(* The state file, lines 68-79                                             *)

\* STATE_FILE is missing, holds the JSON of a dict, or holds the beginning
\* of one: what open(STATE_FILE, "w") and an unfinished json.dump leave.
DiskMissing   == [kind |-> "missing", ids |-> {}]
DiskJson(ids) == [kind |-> "json", ids |-> ids]
DiskPartial   == [kind |-> "partial", ids |-> {}]

\* load_state(): the dict of the file; {} when the file is missing or
\* json.load raises.
load_state(d) == IF d.kind = "json" THEN d.ids ELSE {}

\* save_state(state), run to its end.
save_state(st) == DiskJson(st)

-----------------------------------------------------------------------------
(* handle_post, lines 322-389                                              *)

\* COMMENTS_COUNT, the default of line 39
COMMENTS_COUNT == 3

\* The listing: posts[i] of fetch_listing's result.  Post 1 is the first of
\* the listing, where Reddit puts a stickied post.
Post(i) == [id |-> i, stickied |-> sticky /\ i = 1]

\* if d.get("stickied") and not FORCE_POST_ONE
SkipStickiedNever(d, force_one) == FALSE

SkipStickied(d, force_one) == d.stickied /\ ~force_one

\* if post_id in state and not FORCE_POST_ONE
SkipAlreadySentNever(post_id, st, force_one) == FALSE

SkipAlreadySent(post_id, st, force_one) == post_id \in st /\ ~force_one

\* The outcome of the delivery primitive: r.ok, not r.ok, or an exception
\* inside the try of lines 346-380.
SendOutcomes == {"ok", "rejected", "raised"}

\* sent_ok after the try/except of lines 345-380
SentOkAlways(so) == TRUE

SentOk(so) == so = "ok"

\* A fetch scenario: what the token endpoint, the OAuth endpoint and the
\* relay answer during one call of reddit_json.
Scenario(g, resps, px) == [g |-> g, resps |-> resps, px |-> px]

\* The servers all answer well.
Nominal == Scenario(GrantOk, <<RespOk, RespOk, RespOk>>, Resp(200, TRUE))

\* What reddit_json reports to the driver's bookkeeping: the kinds of call it
\* issued, whether a grant was refused, whether anything went wrong.
Calls(js) ==
    (IF js.primary.grants > 0 THEN {"grant"} ELSE {})
    \cup (IF js.primary.requests > 0 THEN {"oauth"} ELSE {})
    \cup (IF js.proxyCalls > 0 THEN {"proxy"} ELSE {})

GrantRefused(js) == js.primary.grants > 0 /\ ~js.has_token

FetchFault(js) ==
    js.res = "raise" \/ GrantRefused(js) \/ (js.primaryRun /\ js.proxyCalls > 0)

\* fetch_top_comments(post_id36, count), lines 303-305: the call of
\* reddit_json it makes.
fetch_top_comments(cached, sc) ==
    reddit_json(env.FORCE_PROXY, cached, env.reddit, sc.g, sc.g, sc.resps, sc.px)

\* What a call of handle_post is observed to do.
\*   ret: "true" / "false" (returned), "raise" / "exit" (left by an
\*        exception / SystemExit), "killed"
Skipped(d, st, dk, cached) ==
    [id |-> d.id, stickied |-> d.stickied, seen |-> d.id \in st,
     stateBefore |-> st, diskBefore |-> dk,
     ret |-> "false", state |-> st, disk |-> dk,
     fetched |-> FALSE, fetchRes |-> "none",
     grantRefused |-> FALSE, servedAfterRefusal |-> FALSE,
     has_token |-> cached, calls |-> {}, sends |-> 0, so |-> "none",
     accepted |-> FALSE, fault |-> FALSE]

\* Lines 382-389 (and a kill inside them): h is the call up to the send.
record_sent(h, sent_ok, kill) ==
    IF sent_ok
    THEN IF kill = "after_send" THEN [h EXCEPT !.ret = "killed"]
         ELSE IF kill = "in_save"
         THEN [h EXCEPT !.ret = "killed", !.state = @ \cup {h.id},
                        !.disk = DiskPartial]
         ELSE [h EXCEPT !.ret = "true", !.state = @ \cup {h.id},
                        !.disk = save_state(h.state \cup {h.id})]
    ELSE [h EXCEPT !.ret = IF kill = "none" THEN "false" ELSE "killed"]

\* Lines 345-389: the send and what follows it.
send_and_record(h, so, kill) ==
    record_sent([h EXCEPT !.sends = 1, !.so = so, !.calls = @ \cup {"send"},
                          !.accepted = (so = "ok"),
                          !.fault = @ \/ so # "ok" \/ kill # "none"],
                SentOk(so), kill)

\* Line 339 on: compose_caption has called fetch_top_comments, which left c.
\* The call is outside the try of line 346: what it raises leaves
\* handle_post.
composed(h, c, so, kill) ==
    IF c.res # "ok"
    THEN [h EXCEPT !.fetched = TRUE, !.fetchRes = c.res,
                   !.grantRefused = GrantRefused(c),
                   !.has_token = c.has_token, !.calls = Calls(c),
                   !.fault = FetchFault(c), !.ret = c.res]
    ELSE send_and_record(
           [h EXCEPT !.fetched = TRUE, !.fetchRes = c.res,
                     !.grantRefused = GrantRefused(c),
                     !.servedAfterRefusal = GrantRefused(c),
                     !.has_token = c.has_token, !.calls = Calls(c),
                     !.fault = FetchFault(c)],
           so, kill)

\* handle_post(d, state) with state = st and STATE_FILE = dk; sc answers the
\* comment fetch of compose_caption (line 339), so the send; kill names
\* where the process is killed inside the call, if it is: "none",
\* "after_send" (between the send and save_state), "in_save" (inside
\* save_state, after open(..., "w")).
handle_post(d, st, dk, cached, sc, so, kill) ==
    IF SkipStickied(d, env.FORCE_POST_ONE) THEN Skipped(d, st, dk, cached)
    ELSE IF SkipAlreadySent(d.id, st, env.FORCE_POST_ONE) THEN Skipped(d, st, dk, cached)
    ELSE composed(Skipped(d, st, dk, cached), fetch_top_comments(cached, sc), so, kill)

-----------------------------------------------------------------------------
(* main, lines 398-440                                                     *)

\* The bounds of the model.
MaxPosts  == 11     \* the listing holds at most MaxPosts posts
MaxSeen   == 1      \* at most MaxSeen of them are in STATE_FILE at the start

\* The runs of the driver: a run and the run after it.
Runs == {1, 2}

\* if sent_total >= 10
\* A cap that the listing never reaches.
SpamCapOff == 10 + 2

SpamCap == 10

Env == [tg : BOOLEAN, reddit : BOOLEAN, FORCE_PROXY : BOOLEAN,
        PING_ON_START : BOOLEAN, FORCE_POST_ONE : BOOLEAN, CLEAR_STATE : BOOLEAN]

\* What the servers answer during one call of reddit_json in a run: all
\* well, or the OAuth endpoint failing three times, the grant refused, the
\* relay failing.
RunScenarios ==
    {Scenario(g, r, p) :
        g \in GrantAll,
        r \in {<<RespOk, RespOk, RespOk>>,
               <<Resp(500, FALSE), Resp(500, FALSE), Resp(500, FALSE)>>},
        p \in {Resp(200, TRUE), Resp(503, FALSE)}}

\* What the world does during one call of handle_post: the answers to the
\* comment fetch, the outcome of the send, a kill.  One thing at most goes
\* wrong in a call.
World(sc, so, kill) == [sc |-> sc, so |-> so, kill |-> kill]

Worlds ==
    {World(sc, "ok", "none") : sc \in RunScenarios}
    \cup {World(Nominal, so, "none") : so \in SendOutcomes}
    \cup {World(Nominal, "ok", kill) : kill \in {"after_send", "in_save"}}

\* What `last` keeps of a call of handle_post.
Seen(h) == [id |-> h.id, stickied |-> h.stickied, seen |-> h.seen,
            stateBefore |-> h.stateBefore, diskBefore |-> h.diskBefore,
            ret |-> h.ret, fetched |-> h.fetched, fetchRes |-> h.fetchRes,
            sends |-> h.sends, so |-> h.so]

NoCall == [id |-> 0, stickied |-> FALSE, seen |-> FALSE,
           stateBefore |-> {}, diskBefore |-> DiskMissing,
           ret |-> "none", fetched |-> FALSE, fetchRes |-> "none",
           sends |-> 0, so |-> "none"]

NoPrev == [pc |-> "none", sent |-> 0, failed |-> 0, through |-> FALSE]

NoListing == [res |-> "none", via |-> "none", refused |-> FALSE,
              requests |-> 0, proxyCalls |-> 0]

Range(s) == {s[i] : i \in 1..Len(s)}

\* The state of a process that has not started: the module's globals.
Fresh ==
    /\ state = {}
    /\ tok = FALSE
    /\ idx = 1
    /\ sent_total = 0
    /\ skipped = 0
    /\ net = {}
    /\ delivered = <<>>
    /\ recorded = {}
    /\ listing = NoListing
    /\ auth = [refused |-> FALSE, served |-> FALSE]
    /\ failed = 0
    /\ last = NoCall

\* The listing has 0..MaxPosts posts, the last k <= MaxSeen of which earlier
\* runs have delivered and recorded.
InitRun ==
    /\ env \in Env
    /\ nposts \in 0..MaxPosts
    /\ sticky \in BOOLEAN
    /\ \E k \in 0..MaxSeen :
         /\ k <= nposts
         /\ disk = IF k = 0 THEN DiskMissing ELSE DiskJson((nposts - k + 1)..nposts)
         /\ confirmed = (nposts - k + 1)..nposts
    /\ run = 1
    /\ faulted = FALSE
    /\ prev = NoPrev
    /\ pc = "start"
    /\ Fresh

\* The effects of one call of handle_post on the process and the world.  A
\* behaviour holds one fault at most: a failed send, a failed fetch, a
\* refused grant, a kill.
Handled(h) ==
    /\ ~(faulted /\ h.fault)
    /\ faulted' = (faulted \/ h.fault)
    /\ state' = h.state
    /\ disk' = h.disk
    /\ tok' = h.has_token
    /\ net' = net \cup h.calls
    /\ delivered' = IF h.accepted THEN Append(delivered, h.id) ELSE delivered
    /\ recorded' = IF h.ret = "true" THEN recorded \cup {h.id} ELSE recorded
    /\ auth' = [refused |-> auth.refused \/ h.grantRefused,
                served |-> auth.served \/ h.servedAfterRefusal
                           \/ (auth.refused /\ h.fetched /\ h.fetchRes = "ok")]
    /\ failed' = failed + (IF h.sends > 0 /\ ~h.accepted THEN 1 ELSE 0)
    /\ last' = Seen(h)

\* Line 399-400: BOT_TOKEN or CHAT_ID is missing.
StartNoTelegram ==
    /\ UNCHANGED notRunVars
    /\ pc = "start"
    /\ ~env.tg
    /\ pc' = "exit"
    /\ UNCHANGED <<env, nposts, sticky, disk, run, state, tok, idx, sent_total,
                   skipped, net, delivered, recorded, confirmed, listing, auth, failed,
                   faulted, last, prev>>

\* Lines 402-421 once fetch_listing's reddit_json has left js.
Started(js) ==
    /\ ~(faulted /\ FetchFault(js))
    /\ faulted' = (faulted \/ FetchFault(js))
    /\ state' = IF env.CLEAR_STATE THEN {} ELSE load_state(disk)
    /\ disk' = IF env.CLEAR_STATE THEN save_state({}) ELSE disk
    /\ tok' = js.has_token
    /\ net' = (IF env.PING_ON_START THEN {"send"} ELSE {}) \cup Calls(js)
    /\ listing' = [res |-> js.res, via |-> js.via, refused |-> GrantRefused(js),
                   requests |-> js.primary.requests, proxyCalls |-> js.proxyCalls]
    /\ auth' = [refused |-> GrantRefused(js),
                served |-> GrantRefused(js) /\ js.res = "ok"]
    /\ pc' = IF js.res = "exit" THEN "exit"
             ELSE IF js.res = "raise" THEN "crashed"
             ELSE IF env.FORCE_POST_ONE /\ nposts > 0 THEN "force"
             ELSE "loop"

\* Lines 402-421: the ping, load_state, CLEAR_STATE and fetch_listing.
Start ==
    /\ UNCHANGED notRunVars
    /\ pc = "start"
    /\ env.tg
    /\ \E sc \in RunScenarios :
         Started(reddit_json(env.FORCE_PROXY, tok, env.reddit,
                             sc.g, sc.g, sc.resps, sc.px))
    /\ UNCHANGED <<env, nposts, sticky, run, confirmed, prev, idx, sent_total,
                   skipped, delivered, recorded, failed, last>>

\* What main does with the value, or the exception, of handle_post.
AfterCall(h, next) ==
    IF h.ret = "raise" THEN "crashed"
    ELSE IF h.ret = "exit" THEN "exit"
    ELSE IF h.ret = "killed" THEN "killed"
    ELSE next

\* if handle_post(newest, state): sent_total += 1
Forced(h) ==
    /\ Handled(h)
    /\ pc' = AfterCall(h, "loop")
    /\ sent_total' = IF h.ret = "true" THEN sent_total + 1 ELSE sent_total

\* Lines 424-428: handle_post(posts[-1], state) under FORCE_POST_ONE.
ForceOne ==
    /\ UNCHANGED notRunVars
    /\ pc = "force"
    /\ \E w \in Worlds :
         Forced(handle_post(Post(nposts), state, disk, tok, w.sc, w.so, w.kill))
    /\ UNCHANGED <<env, nposts, sticky, run, confirmed, prev, idx, skipped, listing>>

\* The i-th post of  for d in posts : the listing in its own order.
listed_posts(n, i) == i

\* The i-th post of  for d in reversed(posts) , of a listing of n posts.
reversed_posts(n, i) == n - i + 1

\* Lines 434-438: ok = handle_post(d, state) and the two counters.
Looped(h) ==
    /\ Handled(h)
    /\ pc' = AfterCall(h, "loop")
    /\ idx' = IF h.ret \in {"true", "false"} THEN idx + 1 ELSE idx
    /\ sent_total' = IF h.ret = "true" THEN sent_total + 1 ELSE sent_total
    /\ skipped' = IF h.ret = "false" THEN skipped + 1 ELSE skipped

\* Lines 431-438: one iteration of  for d in reversed(posts)  that calls
\* handle_post.
LoopStep ==
    /\ UNCHANGED notRunVars
    /\ pc = "loop"
    /\ idx <= nposts
    /\ sent_total < SpamCap
    /\ \E w \in Worlds :
         Looped(handle_post(Post(reversed_posts(nposts, idx)), state, disk, tok,
                            w.sc, w.so, w.kill))
    /\ UNCHANGED <<env, nposts, sticky, run, confirmed, prev, listing>>

\* Lines 432-433: the break at the cap.
LoopBreak ==
    /\ UNCHANGED notRunVars
    /\ pc = "loop"
    /\ idx <= nposts
    /\ sent_total >= SpamCap
    /\ pc' = "done"
    /\ UNCHANGED <<env, nposts, sticky, disk, run, state, tok, idx, sent_total,
                   skipped, net, delivered, recorded, confirmed, listing, auth, failed,
                   faulted, last, prev>>

\* The loop has gone through reversed(posts); line 440.
LoopEnd ==
    /\ UNCHANGED notRunVars
    /\ pc = "loop"
    /\ idx > nposts
    /\ pc' = "done"
    /\ UNCHANGED <<env, nposts, sticky, disk, run, state, tok, idx, sent_total,
                   skipped, net, delivered, recorded, confirmed, listing, auth, failed,
                   faulted, last, prev>>

\* The process is killed between two calls of handle_post.
Kill ==
    /\ UNCHANGED notRunVars
    /\ pc \in {"force", "loop"}
    /\ ~faulted
    /\ faulted' = TRUE
    /\ pc' = "killed"
    /\ UNCHANGED <<env, nposts, sticky, disk, run, state, tok, idx, sent_total,
                   skipped, net, delivered, recorded, confirmed, listing, auth, failed,
                   last, prev>>

\* The next run: a new process, the same environment, the same listing,
\* the STATE_FILE the last one left.
NextRun ==
    /\ UNCHANGED notRunVars
    /\ pc \in {"done", "exit", "crashed", "killed"}
    /\ run + 1 \in Runs
    /\ run' = run + 1
    /\ prev' = [pc |-> pc, sent |-> sent_total, failed |-> failed,
                through |-> idx > nposts]
    /\ confirmed' = confirmed \cup recorded
    /\ pc' = "start"
    /\ state' = {}
    /\ tok' = FALSE
    /\ idx' = 1
    /\ sent_total' = 0
    /\ skipped' = 0
    /\ net' = {}
    /\ delivered' = <<>>
    /\ recorded' = {}
    /\ listing' = NoListing
    /\ auth' = [refused |-> FALSE, served |-> FALSE]
    /\ failed' = 0
    /\ last' = NoCall
    /\ UNCHANGED <<env, nposts, sticky, disk, faulted>>

IdleFetch ==
    /\ fpc = "idle"
    /\ fin = 0
    /\ fout = 0

IdleCap ==
    /\ cpc = "idle"
    /\ cin = 0
    /\ cout = 0
    /\ csend = 0

IdleTrunc ==
    /\ tpc = "idle"
    /\ tin = 0
    /\ tout = 0

IdleRank ==
    /\ kpc = "idle"
    /\ kin = 0
    /\ kout = 0

Next ==
    \/ StartNoTelegram
    \/ Start
    \/ ForceOne
    \/ LoopStep
    \/ LoopBreak
    \/ LoopEnd
    \/ Kill
    \/ NextRun

Init == InitRun /\ IdleFetch /\ IdleCap /\ IdleTrunc /\ IdleRank

Spec == Init /\ [][Next]_vars

IdleRun ==
    /\ env = [tg |-> TRUE, reddit |-> TRUE, FORCE_PROXY |-> FALSE,
              PING_ON_START |-> FALSE, FORCE_POST_ONE |-> FALSE, CLEAR_STATE |-> FALSE]
    /\ nposts = 0
    /\ sticky = FALSE
    /\ disk = DiskMissing
    /\ confirmed = {}
    /\ run = 1
    /\ faulted = FALSE
    /\ prev = NoPrev
    /\ pc = "idle"
    /\ Fresh

-----------------------------------------------------------------------------
(* SpecFetch: reddit_json on every bounded input                           *)

\* The answer sequences that differ in what the loop reads: after the
\* answer that ends the loop the remaining ones are never requested, and
\* stand as RespOk.
RespSeqs ==
    {s \in [1..MaxRetries -> RespAll] :
        \A k \in 1..(MaxRetries - 1) :
            s[k] \in RespTerminal => \A j \in (k + 1)..MaxRetries : s[j] = RespOk}

\* A token is cached only in a process that holds the credentials it was
\* granted for.
FetchInputs ==
    {i \in [force_proxy : BOOLEAN, cached : BOOLEAN, creds : BOOLEAN,
            g1 : GrantAll, g2 : GrantAll, resps : RespSeqs, px : ProxyAll] :
        i.cached => i.creds}

NoFetch == Fetched("none", "none", NoPrimary(FALSE), FALSE, 0)

InitFetch ==
    /\ IdleRun
    /\ IdleCap
    /\ IdleTrunc
    /\ IdleRank
    /\ fpc = "input"
    /\ fin \in FetchInputs
    /\ fout = NoFetch

DoFetch ==
    /\ fpc = "input"
    /\ fpc' = "done"
    /\ fout' = reddit_json(fin.force_proxy, fin.cached, fin.creds,
                           fin.g1, fin.g2, fin.resps, fin.px)
    /\ UNCHANGED fin
    /\ UNCHANGED notFetchVars

NextFetch == DoFetch

SpecFetch == InitFetch /\ [][NextFetch]_vars

-----------------------------------------------------------------------------
(* Text: a str is the sequence of its characters, one string per character *)

TITLE_CHAR_LIMIT == 200
BODY_CHAR_LIMIT == 600
COMMENT_CHAR_LIMIT == 220
TG_CAPTION_LIMIT == 1024
TG_MESSAGE_LIMIT == 4096

\* The characters str.split() and str.rstrip() take for whitespace.
Whitespace == {" ", "\n", "\t"}

IsWs(c) == c \in Whitespace

\* U+2026, the one character that truncate and compose_caption append.
Ellipsis == "..."

\* U+2022, the bullet that opens a comment line.
Bullet == "(bullet)"

\* No character: the places a character leaves empty when it is dropped.
Kept(c) == c # ""

Min(a, b) == IF a <= b THEN a ELSE b

Max(a, b) == IF a >= b THEN a ELSE b

\* s[:k], with Python's reading of a negative k.
PySlice(s, k) ==
    SubSeq(s, 1, IF k >= 0 THEN Min(k, Len(s)) ELSE Max(Len(s) + k, 0))

\* The index of the last character of s[:n] that is no whitespace, 0 when
\* there is none.
RECURSIVE LastNonWs(_, _)
LastNonWs(s, n) ==
    IF n = 0 THEN 0
    ELSE IF ~IsWs(s[n]) THEN n
    ELSE LastNonWs(s, n - 1)

\* str.rstrip()
rstrip(s) == SubSeq(s, 1, LastNonWs(s, Len(s)))

\* " ".join(text.strip().split()), place by place: a character that is no
\* whitespace stays, the first whitespace of a run between two words becomes
\* one space, everything else is dropped.
Squeezed(s, end) ==
    [i \in 1..Len(s) |->
        IF ~IsWs(s[i]) THEN s[i]
        ELSE IF i > 1 /\ i < end /\ ~IsWs(s[i - 1]) THEN " "
        ELSE ""]

collapse_ws(text) ==
    SelectSeq(Squeezed(text, LastNonWs(text, Len(text))), Kept)

\* t[: max_len - 1].rstrip() + "…"
\* t[: max_len - 1] + "…", with no rstrip.
CutUnstripped(t, max_len) == PySlice(t, max_len - 1) \o <<Ellipsis>>

Cut(t, max_len) == rstrip(PySlice(t, max_len - 1)) \o <<Ellipsis>>

Truncated(t, max_len) == IF Len(t) <= max_len THEN t ELSE Cut(t, max_len)

truncate(text, max_len) == Truncated(collapse_ws(text), max_len)

\* html.escape(c) of one character, quote=True.
Escaped(c) ==
    CASE c = "&" -> <<"&", "a", "m", "p", ";">>
      [] c = "<" -> <<"&", "l", "t", ";">>
      [] c = ">" -> <<"&", "g", "t", ";">>
      [] c = "\"" -> <<"&", "q", "u", "o", "t", ";">>
      [] c = "'" -> <<"&", "#", "x", "2", "7", ";">>
      [] OTHER -> <<c>>

\* The widest replacement html.escape makes.
EscWidth == Len(Escaped("\""))

EscapedAt(c, k) == IF k <= Len(Escaped(c)) THEN Escaped(c)[k] ELSE ""

html_escape(s) ==
    SelectSeq([k \in 1..(EscWidth * Len(s)) |->
                  EscapedAt(s[((k - 1) \div EscWidth) + 1],
                            ((k - 1) % EscWidth) + 1)],
              Kept)

\* sep.join(parts)
RECURSIVE Join(_, _)
Join(parts, sep) ==
    IF parts = <<>> THEN <<>>
    ELSE IF Len(parts) = 1 THEN parts[1]
    ELSE parts[1] \o sep \o Join(Tail(parts), sep)

Digits == <<"0", "1", "2", "3", "4", "5", "6", "7", "8", "9">>

\* str(n) of an int, as the f-string of the comment prefix formats it.
RECURSIVE StrNat(_)
StrNat(n) ==
    IF n < 10 THEN <<Digits[n + 1]>>
    ELSE StrNat(n \div 10) \o <<Digits[(n % 10) + 1]>>

str(n) == IF n < 0 THEN <<"-">> \o StrNat(0 - n) ELSE StrNat(n)

-----------------------------------------------------------------------------
(* compose_caption                                                         *)

\* extract_crosspost_root(d)
extract_crosspost_root(d) ==
    IF d.crosspost_parent_list # <<>> THEN d.crosspost_parent_list[1] ELSE d

ExcerptOf(txt, limit) == IF txt = <<>> THEN <<>> ELSE truncate(txt, limit)

selftext_excerpt(d, limit) ==
    ExcerptOf(collapse_ws(extract_crosspost_root(d).selftext), limit)

is_media_post(d) ==
    d.is_video \/ d.post_hint \in {"image", "hosted:video"} \/ d.is_gallery

Dashes == <<"-", "-", "-", "-", "-", "-", "-", "-">>

Newline == <<"\n">>

\* "https://www.reddit.com"
RedditHost ==
    <<"h", "t", "t", "p", "s", ":", "/", "/", "w", "w", "w", ".",
      "r", "e", "d", "d", "i", "t", ".", "c", "o", "m">>

\* The 18 characters of the anchor's text: two Cyrillic words, "Reddit" and
\* an arrow, with a space between each two.
AnchorText ==
    <<"C", "h", "i", "t", "a", "t", " ", "n", "a", " ",
      "R", "e", "d", "d", "i", "t", " ", "(arrow)">>

title_block(d) ==
    <<"<", "b", ">">>
    \o html_escape(truncate(collapse_ws(d.title), TITLE_CHAR_LIMIT))
    \o <<"<", "/", "b", ">">>

link_line(d) ==
    <<"<", "a", " ", "h", "r", "e", "f", "=", "\"">>
    \o html_escape(RedditHost \o d.permalink)
    \o <<"\"", ">">> \o AnchorText \o <<"<", "/", "a", ">">>

hard_limit(media) == IF media THEN TG_CAPTION_LIMIT ELSE TG_MESSAGE_LIMIT

base_text(tb, body, ll) ==
    Join(IF body # <<>> THEN <<tb, Dashes, ll>> ELSE <<tb, ll>>, Newline)

\* budget = max(0, hard_limit - len(base_text) - 1)
budget_of(tb, body, ll, limit) ==
    Max(0, limit - Len(base_text(tb, body, ll)) - 1)

body_block(body, budget) ==
    IF body # <<>> /\ budget > 0
    THEN html_escape(PySlice(body, Min(Len(body), budget)))
    ELSE <<>>

\* One line of the comments block.
comment_line(c, per_limit) ==
    <<Bullet, " ", "u", "/">> \o c.author \o <<" ", "(", "+">> \o str(c.score)
    \o <<")", ":", " ">> \o html_escape(truncate(c.body, per_limit))

comment_lines(top_comments, per_limit) ==
    [i \in 1..Len(top_comments) |-> comment_line(top_comments[i], per_limit)]

\* total += len(line) + 1
RECURSIVE total_of(_)
total_of(lines) ==
    IF lines = <<>> THEN 0 ELSE Len(Head(lines)) + 1 + total_of(Tail(lines))

min_per_limit == 60

Tries == 20

\* int(per_limit * 0.5)
Halved(per_limit) == per_limit \div 2

\* int(per_limit * 0.8)
Shrunk(per_limit) == (4 * per_limit) \div 5

\* The  for _ in range(20)  of lines 271-284, with the tries it has left.
RECURSIVE FitLines(_, _, _, _, _)
FitLines(lines, top_comments, budget, per_limit, tries) ==
    IF total_of(lines) <= budget THEN lines
    ELSE IF tries = 1 THEN <<>>
    ELSE FitLines(comment_lines(top_comments, Max(min_per_limit, Shrunk(per_limit))),
                  top_comments, budget,
                  Max(min_per_limit, Shrunk(per_limit)), tries - 1)

sep_len == Len(Newline \o Dashes \o Newline)

comment_blocks(top_comments, budget) ==
    IF top_comments # <<>> /\ budget > 0 /\ budget > sep_len
    THEN FitLines(comment_lines(top_comments, COMMENT_CHAR_LIMIT), top_comments,
                  budget - sep_len, COMMENT_CHAR_LIMIT, Tries)
    ELSE <<>>

\* The list  out  of lines 287-294.
out(tb, bb, cb, ll) ==
    <<tb>> \o (IF bb # <<>> THEN <<Dashes, bb>> ELSE <<>>)
    \o (IF cb # <<>> THEN <<Dashes>> \o cb ELSE <<>>) \o <<ll>>

NoHardTruncation(text, limit) == text

\* Lines 297-298.
HardTruncation(text, limit) ==
    IF Len(text) > limit THEN rstrip(PySlice(text, limit - 1)) \o <<Ellipsis>>
    ELSE text

\* What compose_caption returns, and what it went through to get there.
\* budget is the budget left once the body is in (line 261).
Caption(joined, bb, cb, ll, media, budget) ==
    [text |-> HardTruncation(joined, hard_limit(media)),
     media |-> media,
     joined |-> Len(joined),
     body |-> Len(bb),
     comments |-> Len(cb),
     link |-> Len(ll),
     budget |-> budget]

WithComments(tb, bb, cb, ll, media, budget) ==
    Caption(Join(out(tb, bb, cb, ll), Newline), bb, cb, ll, media, budget)

WithBody(tb, bb, ll, budget, top_comments, media) ==
    WithComments(tb, bb, comment_blocks(top_comments, budget - Len(bb)), ll, media,
                 budget - Len(bb))

WithBudget(tb, body, ll, budget, top_comments, media) ==
    WithBody(tb, body_block(body, budget), ll, budget, top_comments, media)

WithBlocks(tb, body, ll, top_comments, media) ==
    WithBudget(tb, body, ll, budget_of(tb, body, ll, hard_limit(media)),
               top_comments, media)

\* compose_caption(d), with top_comments the list fetch_top_comments
\* returned for d.
compose_caption(d, top_comments) ==
    WithBlocks(title_block(d), selftext_excerpt(d, BODY_CHAR_LIMIT), link_line(d),
               top_comments, is_media_post(d))

-----------------------------------------------------------------------------
(* fetch_top_comments, lines 306-319: the rows it makes of the thread      *)

\* "[removed]" and "[deleted]"
RemovedBody == <<"[", "r", "e", "m", "o", "v", "e", "d", "]">>

DeletedBody == <<"[", "d", "e", "l", "e", "t", "e", "d", "]">>

\* The test of lines 309-315 on the data of one child of the thread.
IsRow(c) ==
    /\ c.kind = "t1"
    /\ ~(c.stickied \/ c.distinguished)
    /\ ~(c.removed_by_category \/ c.body \in {RemovedBody, DeletedBody})
    /\ (IF c.author = "" THEN "unknown" ELSE c.author) # "AutoModerator"

\* rows.append((author, score, collapse_ws(body)))
Row(c) ==
    [author |-> IF c.author = "" THEN "unknown" ELSE c.author,
     score |-> c.score,
     body |-> collapse_ws(c.body)]

\* The place list.sort(key=score, reverse=True) gives a row among the rows
\* sorted so far: after those of a greater score and, the sort being
\* stable, after those of the same score that came before it.
PlaceBeforeEqual(sorted, row) ==
    Cardinality({j \in 1..Len(sorted) : sorted[j].score > row.score})

PlaceAfterEqual(sorted, row) ==
    Cardinality({j \in 1..Len(sorted) : sorted[j].score >= row.score})

Inserted(sorted, row, k) ==
    SubSeq(sorted, 1, k) \o <<row>> \o SubSeq(sorted, k + 1, Len(sorted))

\* rows.sort(key=lambda x: x[1], reverse=True)
RECURSIVE SortedByScore(_, _)
SortedByScore(rows, n) ==
    IF n = 0 THEN <<>>
    ELSE Inserted(SortedByScore(rows, n - 1), rows[n],
                  PlaceAfterEqual(SortedByScore(rows, n - 1), rows[n]))

\* The rows of lines 307-317, in the order of the thread.
RowsOf(children) ==
    [i \in 1..Len(SelectSeq(children, IsRow)) |->
        Row(SelectSeq(children, IsRow)[i])]

\* fetch_top_comments(post_id36, count) once reddit_json has returned js.
ranked_comments(js, count) ==
    IF count <= 0 \/ ~js.thread THEN <<>>
    ELSE PySlice(SortedByScore(RowsOf(js.children), Len(RowsOf(js.children))),
                 Max(0, count))

-----------------------------------------------------------------------------
(* SpecCaption: compose_caption on every bounded item                      *)

\* The longest title, self-text and comment body of an item, in repetitions
\* of a unit, and the length of the query of an address elsewhere.
MaxTitle == 201
MaxUrl == 100
MaxBody == 601
MaxComment == 221

\* n repetitions of unit.
Rep(unit, n) ==
    [i \in 1..(n * Len(unit)) |-> unit[((i - 1) % Len(unit)) + 1]]

\* Plain text, text html.escape widens, words with whitespace between them.
Units == {<<"a">>, <<"\"">>, <<"a", " ">>}

Titles ==
    {Rep(u, n) : u \in Units, n \in {1, TITLE_CHAR_LIMIT, MaxTitle}} \cup {<<>>}

Selftexts ==
    {Rep(u, n) : u \in {<<"&">>, <<"b", "\n", "\n">>}, n \in {BODY_CHAR_LIMIT, MaxBody}}
    \cup {<<>>, <<" ">>, Rep(<<"b">>, 2)}

Permalink == <<"/", "r", "/", "n", "b", "a", "/", "c", "o", "m", "m", "e",
               "n", "t", "s", "/", "1", "a", "b", "/", "t", "/">>

\* What is_media_post reads of an item.
Kinds ==
    {[is_video |-> FALSE, post_hint |-> "", is_gallery |-> FALSE],
     [is_video |-> FALSE, post_hint |-> "image", is_gallery |-> FALSE],
     [is_video |-> TRUE, post_hint |-> "hosted:video", is_gallery |-> FALSE],
     [is_video |-> FALSE, post_hint |-> "link", is_gallery |-> TRUE]}

Item(title, selftext, kind, crossposted) ==
    [title |-> title,
     permalink |-> Permalink,
     selftext |-> IF crossposted THEN <<>> ELSE selftext,
     crosspost_parent_list |->
         IF crossposted THEN <<[selftext |-> selftext]>> ELSE <<>>,
     is_video |-> kind.is_video,
     post_hint |-> kind.post_hint,
     is_gallery |-> kind.is_gallery]

Items ==
    {Item(t, b, k, FALSE) : t \in Titles, b \in Selftexts, k \in Kinds}
    \cup {Item(Rep(<<"a">>, 1), Rep(<<"&">>, MaxBody), k, TRUE) : k \in Kinds}

\* The i-th of the ranked comments: fetch_top_comments has collapsed its body
\* and sorted the list by descending score.
Comment(i, body) ==
    [author |-> <<"u", Digits[i + 1]>>, score |-> 12 - (6 * i), body |-> body]

\* The lists fetch_top_comments returns: COMMENTS_COUNT comments at most.
TopComments ==
    {[i \in 1..k |-> Comment(i, collapse_ws(Rep(u, n)))] :
        k \in {1, COMMENTS_COUNT}, u \in {<<"c">>, <<"<">>},
        n \in {1, COMMENT_CHAR_LIMIT, MaxComment}}
    \cup {<<>>}

CapInputs == [d : Items, top_comments : TopComments]

\* No delivery primitive called yet.
NoSend == [primitive |-> "none", text |-> <<>>]

NoCaption == [text |-> <<>>, media |-> FALSE, joined |-> 0, body |-> 0,
              comments |-> 0, link |-> 0, budget |-> 0]

InitCaption ==
    /\ IdleRun
    /\ IdleFetch
    /\ IdleTrunc
    /\ IdleRank
    /\ cpc = "input"
    /\ cin \in CapInputs
    /\ cout = NoCaption
    /\ csend = NoSend

Compose ==
    /\ cpc = "input"
    /\ cpc' = "done"
    /\ cout' = compose_caption(cin.d, cin.top_comments)
    /\ UNCHANGED <<cin, csend>>
    /\ UNCHANGED notCapVars

-----------------------------------------------------------------------------
(* handle_post, lines 333-377: the delivery primitive and its text         *)

\* str.startswith
StartsWith(s, prefix) ==
    Len(s) >= Len(prefix) /\ SubSeq(s, 1, Len(prefix)) = prefix

Sent(primitive, text) == [primitive |-> primitive, text |-> text]

\* f"{caption}\n\n{html.escape(url or ('https://www.reddit.com' + permalink))}"
caption_and_url(d, caption, url) ==
    caption \o Newline \o Newline
    \o html_escape(IF url # <<>> THEN url ELSE RedditHost \o d.permalink)

\* Lines 347-370: the post is a media post and MEDIA_MODE lets media through.
\* has_media stands for the post holding the media's address: the
\* fallback_url of its reddit_video, the first image of its gallery.
send_media(d, caption, url, has_media) ==
    IF d.is_video \/ d.post_hint = "hosted:video"
    THEN IF has_media THEN Sent("send_video", caption)
         ELSE Sent("send_message", caption_and_url(d, caption, url))
    ELSE IF d.is_gallery
    THEN IF has_media THEN Sent("send_photo", caption)
         ELSE Sent("send_message", caption_and_url(d, caption, url))
    ELSE IF d.post_hint = "image" /\ url # <<>> THEN Sent("send_photo", caption)
    ELSE Sent("send_message", caption_and_url(d, caption, url))

\* Lines 371-377: the text message.
send_text(caption, url) ==
    IF url # <<>> /\ ~StartsWith(url, RedditHost)
    THEN Sent("send_message", caption \o Newline \o Newline \o html_escape(url))
    ELSE Sent("send_message", caption)

\* Lines 342-377: use_media and the call it selects.
send_caption(d, caption, media, MEDIA_MODE, url, has_media) ==
    IF MEDIA_MODE # "text_only" /\ media
    THEN send_media(d, caption, url, has_media)
    ELSE send_text(caption, url)

\* d.get("url_overridden_by_dest") or d.get("url"): none, the post's own page
\* on Reddit, an address elsewhere.
ExternalUrl ==
    <<"h", "t", "t", "p", "s", ":", "/", "/", "e", ".", "x", "/",
      "?", "a", "=", "1", "&", "b", "=">> \o Rep(<<"2">>, MaxUrl)

Urls == {<<>>, RedditHost \o Permalink, ExternalUrl}

\* handle_post's send of the caption compose_caption returned.
Dispatch ==
    /\ cpc = "done"
    /\ cpc' = "sent"
    /\ \E url \in Urls, mode \in {"auto", "text_only"}, has_media \in BOOLEAN :
         csend' = send_caption(cin.d, cout.text, cout.media, mode, url, has_media)
    /\ UNCHANGED <<cin, cout>>
    /\ UNCHANGED notCapVars

NextCaption ==
    \/ Compose
    \/ Dispatch

SpecCaption == InitCaption /\ [][NextCaption]_vars

-----------------------------------------------------------------------------
(* The claims about reddit_json, checked under SpecFetch                   *)

\* The call of line 136 yields a token: one is cached, or the grant is given.
TokenObtained == fin.cached \/ (fin.creds /\ fin.g1 = GrantOk)


\* The answers are k-1 transient failures (429 or 5xx), then a success.
TransientThenOk(k) ==
    /\ \A j \in 1..(k - 1) :
          fin.resps[j].status = 429
          \/ (500 <= fin.resps[j].status /\ fin.resps[j].status < 600)
    /\ fin.resps[k] = RespOk

\* C6: one logical fetch issues at most 3 requests on the primary path; when
\* the answers are transient failures (429, 5xx) followed by a success on
\* attempt k <= 3, reddit_json returns that payload, from the primary path,
\* after exactly k requests, and the relay is never invoked.
C6_RetryThenSuccess ==
    fpc = "done" =>
      /\ fout.primary.requests <= 3
      /\ \A k \in 1..3 :
           (~fin.force_proxy /\ TokenObtained /\ TransientThenOk(k)) =>
             /\ fout.res = "ok"
             /\ fout.via = "oauth"
             /\ fout.primary.requests = k
             /\ fout.proxyCalls = 0

\* C6, its case: 429, 429, then the payload on the third attempt.
C6_Witness ==
    /\ fpc = "done"
    /\ ~fin.force_proxy
    /\ fin.resps = <<Resp(429, FALSE), Resp(429, FALSE), RespOk>>
    /\ fout.res = "ok"
    /\ fout.primary.requests = 3
    /\ fout.primary.sleeps = 2
    /\ fout.proxyCalls = 0

\* C7: with FORCE_PROXY unset the relay is invoked if and only if the
\* primary path ended in failure, and then once; reddit_json returns the
\* relay's payload when the relay succeeds, and fails only when the primary
\* path and the relay both failed (a relay body that is no JSON is a failure
\* of the relay).
C7_FallbackIffPrimaryFailed ==
    (fpc = "done" /\ ~fin.force_proxy) =>
      /\ fout.proxyCalls = (IF fout.primary.res # "ok" THEN 1 ELSE 0)
      /\ (fout.proxyCalls = 1 /\ reddit_json_via_proxy(fin.px) = "ok") =>
            (fout.res = "ok" /\ fout.via = "proxy")
      /\ fout.res # "ok" =>
            (fout.primary.res # "ok" /\ fout.proxyCalls = 1
             /\ reddit_json_via_proxy(fin.px) = "raise")

\* C7 where the four REDDIT_* variables are set: the primary path then ends
\* by returning or by raising an Exception, and the statement of C7 holds.
C7_FallbackWithCredentials ==
    fin.creds => C7_FallbackIffPrimaryFailed

-----------------------------------------------------------------------------
(* The claims about main and handle_post, checked under Spec               *)

\* C2 as stated: a second run on the unchanged listing, after a first run
\* that ran to its end, delivers nothing.
C2_SecondRunDeliversNothingAlways ==
    (run = 2 /\ prev.pc = "done") => delivered = <<>>

\* C2, amended: with FORCE_POST_ONE and CLEAR_STATE unset, a second run on
\* the unchanged listing delivers nothing when the first run went through
\* the whole listing (it was not cut at the cap of 10, nor aborted or
\* killed) and none of its sends failed.
C2_SecondRunDeliversNothing ==
    (/\ run = 2
     /\ prev.pc = "done"
     /\ prev.through
     /\ prev.failed = 0
     /\ ~env.FORCE_POST_ONE
     /\ ~env.CLEAR_STATE) => delivered = <<>>

\* C2, its case: the first run delivered, the second run went through the
\* same listing and skipped every post of it.
C2_Witness ==
    /\ run = 2
    /\ prev.pc = "done" /\ prev.through /\ prev.failed = 0 /\ prev.sent >= 2
    /\ ~env.FORCE_POST_ONE /\ ~env.CLEAR_STATE
    /\ pc = "done"
    /\ skipped = nposts
    /\ delivered = <<>>

\* C3: a call of handle_post whose comment fetch failed still sends the
\* post, and the run goes on.
C3_CommentFailureDegrades ==
    (last.fetched /\ last.fetchRes = "raise") =>
        (last.sends = 1 /\ last.ret \in {"true", "false"} /\ pc # "crashed")

\* C4: after a kill, the next run delivers no post whose delivery an earlier
\* run had confirmed and written to STATE_FILE.
C4_NoRedeliveryAfterKill ==
    (/\ run = 2
     /\ prev.pc = "killed"
     /\ ~env.FORCE_POST_ONE
     /\ ~env.CLEAR_STATE) => Range(delivered) \cap confirmed = {}

\* C5: handle_post adds the post's id to the state, in memory and in
\* STATE_FILE, if and only if the send returned success; when the send is
\* rejected or raises, handle_post returns False, leaves both as they were,
\* and main goes on.
C5_RecordedIffSent ==
    (last.ret \in {"true", "false"}) =>
      /\ (last.ret = "true") = (last.so = "ok")
      /\ last.so = "ok" =>
            (state = last.stateBefore \cup {last.id} /\ disk = DiskJson(state))
      /\ last.so # "ok" =>
            (state = last.stateBefore /\ disk = last.diskBefore)
      /\ last.so \in {"rejected", "raised"} =>
            (last.ret = "false" /\ pc \in {"loop", "done"})

\* C5, its case: a send failed, main went on and the next send succeeded.
C5_Witness ==
    /\ failed = 1
    /\ last.ret = "true"
    /\ last.so = "ok"
    /\ last.id \in state
    /\ Len(delivered) >= 2

C9_MissingCredentialExitsFirst ==
    (~env.tg \/ ~env.reddit) => (pc \in {"start", "exit"} /\ net = {})

\* C10: with FORCE_POST_ONE unset, handle_post on a post that is stickied or
\* whose id is in the state returns False without fetching comments, without
\* a send and without touching the state or STATE_FILE.
C10_SkipLeavesNoTrace ==
    (/\ last.ret # "none"
     /\ ~env.FORCE_POST_ONE
     /\ (last.stickied \/ last.seen)) =>
        /\ last.ret = "false"
        /\ ~last.fetched
        /\ last.sends = 0
        /\ state = last.stateBefore
        /\ disk = last.diskBefore

\* C10, its case: a run that skipped posts already in the state and then the
\* stickied post.
C10_Witness ==
    /\ ~env.FORCE_POST_ONE
    /\ last.stickied
    /\ last.ret = "false"
    /\ skipped >= 3
    /\ state # {}
    /\ delivered = <<>>

-----------------------------------------------------------------------------
(* The claims about compose_caption, checked under SpecCaption             *)

\* C1: for every item the text compose_caption returns is no longer than the
\* hard limit chosen for the item: 1024 when is_media_post(item), 4096
\* otherwise.
C1_CaptionWithinHardLimit ==
    cpc = "done" =>
        /\ cout.media = is_media_post(cin.d)
        /\ Len(cout.text) <= (IF is_media_post(cin.d) THEN 1024 ELSE 4096)

\* C1, its case: a text post whose escaped title and body, joined, pass the
\* limit of 4096, and come back cut to it.
C1_Witness ==
    /\ cpc = "done"
    /\ ~is_media_post(cin.d)
    /\ cout.body > 0
    /\ cout.joined > 4096
    /\ Len(cout.text) = 4096

-----------------------------------------------------------------------------
(* The claims about the order and the number of deliveries, under Spec     *)

\* C11: in a run the number of successful deliveries never passes the cap of
\* 10, whatever the listing, the state at the start and the toggles
\* (FORCE_POST_ONE included).
C11_AtMostTenDeliveries ==
    Len(delivered) <= 10 /\ sent_total <= 10

\* C11, its case: under FORCE_POST_ONE the forced send and nine sends of the
\* loop reach the cap, and the loop breaks with posts left in the listing.
C11_Witness ==
    /\ env.FORCE_POST_ONE
    /\ pc = "done"
    /\ idx <= nposts
    /\ sent_total = 10
    /\ Len(delivered) = 10

-----------------------------------------------------------------------------
(* SpecTruncate: truncate on every bounded text and limit                  *)

\* The longest text given to truncate, and the largest max_len.
MaxText == 5
MaxCut == 4

\* A letter, a space, a newline.
TextChars == {"a", " ", "\n"}

Texts == UNION {[1..n -> TextChars] : n \in 0..MaxText}

TruncInputs == [text : Texts, max_len : 0..MaxCut]

InitTruncate ==
    /\ IdleRun
    /\ IdleFetch
    /\ IdleCap
    /\ IdleRank
    /\ tpc = "input"
    /\ tin \in TruncInputs
    /\ tout = <<>>

DoTruncate ==
    /\ tpc = "input"
    /\ tpc' = "done"
    /\ tout' = truncate(tin.text, tin.max_len)
    /\ UNCHANGED tin
    /\ UNCHANGED notTruncVars

NextTruncate == DoTruncate

SpecTruncate == InitTruncate /\ [][NextTruncate]_vars

-----------------------------------------------------------------------------
(* The claims about truncate, checked under SpecTruncate                   *)

\* C12 as stated: when the collapsed form of s is no longer than n the
\* result is that form; when it is longer the result has length exactly n
\* and ends in the ellipsis.
C12_TruncateExactLength ==
    tpc = "done" =>
      IF Len(collapse_ws(tin.text)) <= tin.max_len
      THEN tout = collapse_ws(tin.text)
      ELSE Len(tout) = tin.max_len /\ tout[Len(tout)] = Ellipsis

\* C12, amended: the collapsed form holds no whitespace but single spaces
\* between words; when it is no longer than n it is the result; when it is
\* longer and n >= 1 the result is a prefix of it with its trailing space
\* removed, followed by the ellipsis, and its length is n, or n - 1 when
\* character n - 1 of the collapsed form is a space.
C12_TruncateAtMostLength ==
    tpc = "done" =>
      /\ \A i \in 1..Len(collapse_ws(tin.text)) :
           /\ collapse_ws(tin.text)[i] \in {"a", " "}
           /\ collapse_ws(tin.text)[i] = " " =>
                /\ 1 < i /\ i < Len(collapse_ws(tin.text))
                /\ collapse_ws(tin.text)[i + 1] # " "
      /\ Len(collapse_ws(tin.text)) <= tin.max_len =>
           tout = collapse_ws(tin.text)
      /\ (Len(collapse_ws(tin.text)) > tin.max_len /\ tin.max_len >= 1) =>
           /\ tout[Len(tout)] = Ellipsis
           /\ SubSeq(tout, 1, Len(tout) - 1)
                = SubSeq(collapse_ws(tin.text), 1, Len(tout) - 1)
           /\ Len(tout) = 1 \/ ~IsWs(tout[Len(tout) - 1])
           /\ Len(tout) =
                (IF tin.max_len >= 2 /\ collapse_ws(tin.text)[tin.max_len - 1] = " "
                 THEN tin.max_len - 1 ELSE tin.max_len)

\* C12, its case: the cut falls after a space, which rstrip removes, and
\* the result is one character short of n.
C12_Witness ==
    /\ tpc = "done"
    /\ tin.max_len = 3
    /\ collapse_ws(tin.text) = <<"a", " ", "a", " ", "a">>
    /\ tout = <<"a", Ellipsis>>

-----------------------------------------------------------------------------
(* SpecRank: fetch_top_comments on every bounded thread                    *)

\* The most children a thread holds.
MaxChildren == 3

\* A reply as Reddit serves it, and the ways a child fails the tests of
\* lines 309-315, one at a time.
Plain(score) ==
    [kind |-> "t1", stickied |-> FALSE, distinguished |-> FALSE, removed |-> "",
     removed_by_category |-> FALSE, author |-> "u", score |-> score]

ChildKinds ==
    {Plain(1), Plain(2),
     [Plain(2) EXCEPT !.author = ""],
     [Plain(3) EXCEPT !.kind = "more"],
     [Plain(3) EXCEPT !.stickied = TRUE],
     [Plain(3) EXCEPT !.distinguished = TRUE],
     [Plain(3) EXCEPT !.removed = "[removed]"],
     [Plain(3) EXCEPT !.removed = "[deleted]"],
     [Plain(3) EXCEPT !.removed_by_category = TRUE],
     [Plain(3) EXCEPT !.author = "AutoModerator"]}

\* The i-th child of the thread: its body is its own, unless the comment
\* was removed or deleted.
Child(i, k) ==
    [kind |-> k.kind, stickied |-> k.stickied, distinguished |-> k.distinguished,
     removed_by_category |-> k.removed_by_category, author |-> k.author,
     score |-> k.score,
     body |-> IF k.removed = "[removed]" THEN RemovedBody
              ELSE IF k.removed = "[deleted]" THEN DeletedBody
              ELSE <<" ", "c", "\n", " ", Digits[i + 1]>>]

Threads ==
    UNION {{[i \in 1..n |-> Child(i, ks[i])] : ks \in [1..n -> ChildKinds]} :
             n \in 0..MaxChildren}

RankInputs ==
    [js : [thread : BOOLEAN, children : Threads], count : 0..COMMENTS_COUNT]

InitRank ==
    /\ IdleRun
    /\ IdleFetch
    /\ IdleCap
    /\ IdleTrunc
    /\ kpc = "input"
    /\ kin \in RankInputs
    /\ kout = <<>>

DoRank ==
    /\ kpc = "input"
    /\ kpc' = "done"
    /\ kout' = ranked_comments(kin.js, kin.count)
    /\ UNCHANGED kin
    /\ UNCHANGED notRankVars

NextRank == DoRank

SpecRank == InitRank /\ [][NextRank]_vars

-----------------------------------------------------------------------------
(* The claims about fetch_top_comments, checked under SpecRank             *)

\* The children of the thread that a returned row was made of.
MadeOf(row) ==
    {i \in 1..Len(kin.js.children) :
        /\ collapse_ws(kin.js.children[i].body) = row.body
        /\ kin.js.children[i].score = row.score}

\* C13: fetch_top_comments returns at most count rows; each is made of a
\* reply of the thread that is not stickied, distinguished, removed, deleted,
\* removed by category or written by AutoModerator; the rows are in
\* descending order of score, and rows of equal score in the order their
\* replies have in the thread.
C13_RankedComments ==
    kpc = "done" =>
      /\ Len(kout) <= kin.count
      /\ \A r \in 1..Len(kout) :
           /\ kout[r].body \notin {RemovedBody, DeletedBody}
           /\ kout[r].author # "AutoModerator"
           /\ MadeOf(kout[r]) # {}
           /\ \A i \in MadeOf(kout[r]) :
                /\ kin.js.children[i].kind = "t1"
                /\ ~kin.js.children[i].stickied
                /\ ~kin.js.children[i].distinguished
                /\ ~kin.js.children[i].removed_by_category
                /\ kin.js.children[i].author # "AutoModerator"
      /\ \A r \in 1..Len(kout) : \A q \in (r + 1)..Len(kout) :
           /\ kout[r].score >= kout[q].score
           /\ kout[r].score = kout[q].score =>
                \A i \in MadeOf(kout[r]) : \A j \in MadeOf(kout[q]) : i < j

\* C13, its case: three replies of scores 1, 2, 1: the second comes first,
\* then the first and the third in the order of the thread.
C13_Witness ==
    /\ kpc = "done"
    /\ kin.count = 3
    /\ Len(kin.js.children) = 3
    /\ Len(kout) = 3
    /\ kout[1].score = 2 /\ kout[2].score = 1 /\ kout[3].score = 1
    /\ MadeOf(kout[1]) = {2} /\ MadeOf(kout[2]) = {1} /\ MadeOf(kout[3]) = {3}

-----------------------------------------------------------------------------
(* The claims about the retry policy, checked under SpecFetch              *)

\* The sleeps of the primary path before its k-th response.
SleepsBefore(k) ==
    Cardinality({j \in 1..(k - 1) : IsBackoffStatus(fout.primary.statuses[j])})

\* C14 as stated: a response with a 4xx status other than 401 and 429 ends
\* the primary path at once: no further primary request, no backoff sleep.
C14_Other4xxAborts ==
    fpc = "done" =>
      \A k \in 1..Len(fout.primary.statuses) :
        (/\ 400 <= fout.primary.statuses[k]
         /\ fout.primary.statuses[k] < 500
         /\ fout.primary.statuses[k] \notin {401, 429}) =>
            /\ fout.primary.requests = k
            /\ fout.primary.sleeps = SleepsBefore(k)

\* C14, amended: a response with a 4xx status other than 401, 403 and 429
\* ends the primary path at once, with no further primary request and no
\* sleep, and the relay is asked when FORCE_PROXY is unset; a 403 is handled
\* as a 429 is: a backoff sleep follows it, and the next request while one
\* of the 3 attempts is left.
C14_Other4xxBut403Aborts ==
    fpc = "done" =>
      \A k \in 1..Len(fout.primary.statuses) :
        /\ (/\ 400 <= fout.primary.statuses[k]
            /\ fout.primary.statuses[k] < 500
            /\ fout.primary.statuses[k] \notin {401, 403, 429}) =>
               /\ fout.primary.requests = k
               /\ fout.primary.sleeps = SleepsBefore(k)
               /\ fout.primary.res = "raise"
               /\ fout.proxyCalls = 1
        /\ fout.primary.statuses[k] = 403 =>
               /\ fout.primary.sleeps >= SleepsBefore(k) + 1
               /\ (k < 3 /\ fin.resps[k + 1].status # 0) =>
                     fout.primary.requests >= k + 1

\* C14, its case: a 403, retried after a sleep, then a 404 that ends the
\* primary path and hands the fetch to the relay.
C14_Witness ==
    /\ fpc = "done"
    /\ fout.primary.statuses = <<403, 404>>
    /\ fout.primary.requests = 2
    /\ fout.primary.sleeps = 1
    /\ fout.proxyCalls = 1

\* The 401 responses of the primary path.
Unauthorized == {k \in 1..Len(fout.primary.statuses) : fout.primary.statuses[k] = 401}

\* C15 as stated: one logical fetch makes at most one forced refresh of the
\* token because of 401 responses, and every forced refresh is followed by a
\* retry with the new token.
C15_OneRefreshThenRetry ==
    fpc = "done" =>
      /\ fout.primary.forced <= 1
      /\ \A k \in Unauthorized :
           (fin.g2 = GrantOk /\ fin.resps[Min(k + 1, 3)].status # 0) =>
               fout.primary.requests >= k + 1

\* C15, amended: every 401 of the primary path is followed by a forced
\* refresh, which asks the token endpoint: up to 3 in one fetch.  A refresh
\* that yields a token after attempt 1 or 2 is followed by a retry; the one
\* after attempt 3 is followed by none: the primary path raises and the
\* relay is asked.
C15_RefreshOnEvery401 ==
    (fpc = "done" /\ fout.primaryRun) =>
      /\ fout.primary.forced = Cardinality(Unauthorized)
      /\ fout.primary.forced <= 3
      /\ TokenObtained =>
           fout.primary.grants = (IF fin.cached THEN 0 ELSE 1) + fout.primary.forced
      /\ \A k \in Unauthorized :
           fin.g2 = GrantOk =>
             IF k < 3
             THEN fin.resps[k + 1].status # 0 => fout.primary.requests >= k + 1
             ELSE /\ fout.primary.requests = 3
                  /\ fout.primary.res = "raise"
                  /\ fout.proxyCalls = 1

\* C15, its case: three 401s, three forced refreshes that each yield a
\* token, and no retry after the third.
C15_Witness ==
    /\ fpc = "done"
    /\ fin.g2 = GrantOk
    /\ fout.primary.statuses = <<401, 401, 401>>
    /\ fout.primary.forced = 3
    /\ fout.primary.requests = 3
    /\ fout.proxyCalls = 1

-----------------------------------------------------------------------------
(* The claims about the blocks of the caption, checked under SpecCaption   *)

\* C16: the text compose_caption returns ends with the whole link line, for
\* every item and both limits, the cut title or body and the hard truncation
\* included.
C16_EndsWithLinkLine ==
    cpc = "done" =>
      /\ Len(cout.text) >= Len(link_line(cin.d))
      /\ SubSeq(cout.text, Len(cout.text) - Len(link_line(cin.d)) + 1, Len(cout.text))
           = link_line(cin.d)

\* The per-comment limits the loop of lines 271-284 tries: 220, then
\* max(60, floor(0.8 * L)) of the limit before.
PerLimits == {220, 176, 140, 112, 89, 71, 60}

\* The rendering of all the ranked comments at the limit L fits in the
\* budget left after the skeleton, the body and one separator.
Fits(L) ==
    total_of(comment_lines(cin.top_comments, L)) <= cout.budget - 10

\* The text ends with the separator, one whole line for every ranked
\* comment as rendered at the limit L, and the link line.
EndsWithBlock(L) ==
    /\ Len(cout.text) >=
         Len(Join(<<Dashes>> \o comment_lines(cin.top_comments, L)
                  \o <<link_line(cin.d)>>, Newline))
    /\ SubSeq(cout.text,
              Len(cout.text) + 1
                - Len(Join(<<Dashes>> \o comment_lines(cin.top_comments, L)
                           \o <<link_line(cin.d)>>, Newline)),
              Len(cout.text))
         = Join(<<Dashes>> \o comment_lines(cin.top_comments, L)
                \o <<link_line(cin.d)>>, Newline)

CommentLinesIn(text) == Len(SelectSeq(text, LAMBDA c : c = Bullet))

\* C17: the comments block is all or none.  The text holds one whole line
\* for every ranked comment, or no comment line; it holds them exactly when
\* at one of the limits 220, 176, ..., 60 the rendering of all of them fits
\* in the budget left after the skeleton, the body and one separator.
C17_CommentsAllOrNone ==
    cpc = "done" =>
      /\ CommentLinesIn(cout.text) \in {0, Len(cin.top_comments)}
      /\ CommentLinesIn(cout.text) = cout.comments
      /\ cout.comments > 0 <=>
           (/\ cin.top_comments # <<>>
            /\ cout.budget > 10
            /\ \E L \in PerLimits : Fits(L))
      /\ cout.comments > 0 =>
           \E L \in PerLimits :
              /\ Fits(L)
              /\ \A K \in PerLimits : K > L => ~Fits(K)
              /\ EndsWithBlock(L)

\* C17, its case: three comments that do not fit at the limit of 220 and
\* are all in the text, each cut to a smaller limit.
C17_Witness ==
    /\ cpc = "done"
    /\ Len(cin.top_comments) = 3
    /\ ~Fits(220)
    /\ cout.comments = 3
    /\ CommentLinesIn(cout.text) = 3

-----------------------------------------------------------------------------
(* The claims about the order of the deliveries, checked under Spec        *)

\* C18: in a run the posts are attempted in reverse listing order: of two
\* posts delivered in the same run, the one that comes later in the listing
\* is delivered first.
C18_ReverseListingOrder ==
    \A p \in 1..Len(delivered) : \A q \in 1..Len(delivered) :
        delivered[p] > delivered[q] => p < q

\* C18, its case: a run that delivered three posts at least, the last of
\* the listing first.
C18_Witness ==
    /\ pc = "done"
    /\ Len(delivered) >= 3
    /\ delivered[1] = nposts
    /\ delivered[2] = nposts - 1
    /\ delivered[3] = nposts - 2

-----------------------------------------------------------------------------
(* The claims about the send of the caption, checked under SpecCaption     *)

\* C19: what handle_post hands to a delivery primitive is within the
\* primitive's ceiling: 1024 for the caption of send_photo and send_video,
\* 4096 for the text of send_message, the appended URL included.
C19_SentWithinCeiling ==
    cpc = "sent" =>
      Len(csend.text) <=
        (IF csend.primitive \in {"send_photo", "send_video"} THEN 1024 ELSE 4096)

\* C20: in a run no post is delivered more than once, whatever the listing,
\* the state at the start and the toggles; under FORCE_POST_ONE the one
\* post forced past the state is the newest.
C20_DeliveredOnce ==
    /\ \A p \in 1..Len(delivered) : \A q \in 1..Len(delivered) :
          delivered[p] = delivered[q] => p = q
    /\ \A p \in 1..Len(delivered) :
          (run = 1 /\ ~env.CLEAR_STATE /\ delivered[p] \in confirmed) =>
              delivered[p] = nposts

\* C20 where FORCE_POST_ONE is unset: no post is delivered twice in a run.
C20_DeliveredOnceUnforced ==
    ~env.FORCE_POST_ONE =>
        \A p \in 1..Len(delivered) : \A q \in 1..Len(delivered) :
            delivered[p] = delivered[q] => p = q

====
